---- MODULE Spec2Model ----
(***************************************************************************)
(* Model of DownloadModule.py: the resumable, deduplicating filing         *)
(* download pipeline (main, get_filings_list, download_and_unzip_filings)  *)
(* and the semaphore/timestamp RateLimiter.                                *)
(*                                                                         *)
(* Spec   : the pipeline, one process at a time, any number of runs up to  *)
(*          MaxRuns, with process crashes between any two steps.           *)
(* SpecRL : the RateLimiter used as a context manager by NumThreads        *)
(*          concurrent callers, over a discrete clock.                     *)
(***************************************************************************)
EXTENDS Integers, Sequences, FiniteSets, TLC

(* ------------------------------ bounds -------------------------------- *)
MaxRuns == 2
\* SpecRL: concurrent callers, last clock value, and the limiter's
\* constructor arguments (the module builds RateLimiter(10, 1); the class
\* takes any)
NumThreads == 3
MaxTime == 3
max_calls == 2
period == 2

(* ------------------------- program constants -------------------------- *)
max_retries == 1

(* ------------------------------ inputs -------------------------------- *)
\* company_tickers.csv as read by read_company_data_from_csv: an ordered
\* list of tickers; cik_str is the row's CIK column.  Two tickers may share
\* one CIK (two share classes of one registrant).
InputLists == { <<"AAA", "BBB", "CCC">>, <<"AAA", "BBB">> }

cik_str(ticker) ==
    CASE ticker = "AAA" -> "c1"
      [] ticker = "BBB" -> "c2"
      [] ticker = "CCC" -> "c2"

\* metadata.json()['filings']['recent'] of the catalog endpoint, row-wise.
Recent(cik) ==
    CASE cik = "c1" ->
           << [form |-> "10-K", accessionNumber |-> "a1", reportDate |-> "2023-09-30"],
              [form |-> "8-K",  accessionNumber |-> "a2", reportDate |-> "2023-09-30"],
              [form |-> "10-q", accessionNumber |-> "a3", reportDate |-> "20230630"] >>
      [] cik = "c2" ->
           << [form |-> "10-Q", accessionNumber |-> "a4", reportDate |-> "2023-09-30"],
              [form |-> "10-Q", accessionNumber |-> "a4", reportDate |-> "2023-09-30"] >>

\* What the archive endpoint may send with status 200: a package that is
\* not a zip archive, or an archive with the listed member names.
Packages ==
    { [valid |-> FALSE, names |-> <<>>],
      [valid |-> TRUE,  names |-> <<"r.htm">>],
      [valid |-> TRUE,  names |-> <<"a.xml">>],
      [valid |-> TRUE,  names |-> <<"a.xml", "B.XML">>] }

BadResponse == [valid |-> FALSE, names |-> <<>>]

(* ------------------------- string conversions ------------------------- *)
\* str.lower() on the form names that occur
Lower(s) ==
    CASE s = "10-K" -> "10-k"
      [] s = "10-Q" -> "10-q"
      [] s = "8-K"  -> "8-k"
      [] OTHER      -> s

\* str.upper() on the lower-cased form names
Upper(s) ==
    CASE s = "10-k" -> "10-K"
      [] s = "10-q" -> "10-Q"
      [] s = "8-k"  -> "8-K"
      [] OTHER      -> s

\* file.lower().endswith('.xml')
EndsWithXml(name) == name \in {"a.xml", "B.XML"}

\* mutant of FormatDate: the catalog's reportDate is stored as received
FormatDateRaw(d) == d

\* pd.to_datetime(d).strftime('%Y-%m-%d')
FormatDate(d) ==
    CASE d = "20230630" -> "2023-06-30"
      [] OTHER          -> d

(* ------------------------------ state --------------------------------- *)
VARIABLES
    \* --- pipeline ---
    csvs,          \* the input list read by each run so far (last = current)
    company_data,  \* main's company_data after the resume slice
    committed,     \* filings table: durable rows, in id order
    pending,       \* rows inserted on the open connection, not yet committed
    pc,            \* position of the process: "idle" = no process running
    ei,            \* position of the entity loop in company_data
    filings,       \* filings_list of the current entity
    fi,            \* position of the filing loop in filings
    retries,       \* local retries
    response,      \* local response: the package last received
    new_filename,  \* local new_filename; <<>> while unbound
    files,         \* paths present under D:/Filings
    \* --- history (read by the properties only) ---
    ev,            \* what the last step did
    attempted,     \* tickers whose processing began in the current run
    failed,        \* tickers whose processing raised in the current run
    cursor,        \* ticker of the newest row at startup, "" if none
    fetches,       \* archive requests issued in the current run
    attempts,      \* archive requests issued for the current filing
    extracted,     \* <<accession, path>>: a member of that package renamed to path
    allLedgered,   \* at startup every eligible filing of the input was durable
    fetched,       \* accession numbers requested from the archive in the current run
    interrupted,   \* ticker in process when the last run was killed, "" if none
    \* --- RateLimiter ---
    now,           \* the clock read by time.time()
    permits,       \* self.semaphore's counter
    lock,          \* holder of self.lock, 0 when free
    timer,         \* self.timer
    tpc,           \* position of each caller
    tread,         \* each caller's last time.time() result
    wake,          \* earliest clock value at which each caller's sleep returns
    \* --- history (read by the properties only) ---
    starts,        \* starts[t]: calls whose __enter__ took timestamp t
    own,           \* each caller's own __enter__ timestamp
    raised         \* callers in __exit__ because the body raised

pipeVars == << csvs, company_data, committed, pending, pc, ei, filings, fi,
               retries, response, new_filename, files, ev, attempted, failed,
               cursor, fetches, attempts, extracted, allLedgered,
               fetched, interrupted >>

rlVars == << now, permits, lock, timer, tpc, tread, wake, starts, own, raised >>

vars == << pipeVars, rlVars >>

Unbound == <<>>

(* ------------------------------ helpers ------------------------------- *)
Range(s) == { s[i] : i \in 1..Len(s) }

\* the rows visible through the cursor: durable rows and this connection's
Table == committed \o pending

\* mutant of CountRows: the lookup misses the rows this run has inserted
\* and not yet committed
CountRowsCommittedOnly(acc) ==
    Cardinality({ i \in 1..Len(committed) : committed[i].accession_number = acc })

\* mutant of CountRows: the lookup sees only the rows of this run
CountRowsPendingOnly(acc) ==
    Cardinality({ i \in 1..Len(pending) : pending[i].accession_number = acc })

\* SELECT COUNT(*) FROM filings WHERE accession_number = ?
CountRows(acc) ==
    Cardinality({ i \in 1..Len(Table) : Table[i].accession_number = acc })

\* mutant of AlreadyDownloaded: "if count > 1"
AlreadyDownloadedOffByOne(acc) == CountRows(acc) > 1

\* if count > 0: ... continue
AlreadyDownloaded(acc) == CountRows(acc) > 0

\* mutant of LoopCond: "while retries <= max_retries"
LoopCondInclusive(r) == r <= max_retries

\* while retries < max_retries
LoopCond(r) == r < max_retries

\* all_forms[all_forms['form'].str.lower().isin([...])]
IsRecognized(f) == Lower(f.form) \in {"10-k", "10-q", "20-f", "40-f"}

FilterForms(rows) == SelectSeq(rows, IsRecognized)

\* company_data[company_data['ticker'] == t].index[0]
ticker_index(list, t) ==
    CHOOSE i \in 1..Len(list) :
        /\ list[i] = t
        /\ \A j \in 1..(i - 1) : list[j] # t

\* mutant of ResumeSlice: the slice ends at the cursor's row
ResumeSlicePrefix(list, t) == SubSeq(list, 1, ticker_index(list, t))

\* mutant of ResumeSlice: the slice starts after the cursor's row
ResumeSliceExclusive(list, t) ==
    SubSeq(list, ticker_index(list, t) + 1, Len(list))

\* company_data.loc[ticker_index:]
ResumeSlice(list, t) == SubSeq(list, ticker_index(list, t), Len(list))

\* mutant of IndexErrorPc: the failed lookup is swallowed and the loop
\* runs over the whole input
IndexErrorPcCaught == "loop"

\* where main goes when index[0] raises at line 145: the statement is
\* outside every try block, so main is left
IndexErrorPc == "idle"

\* mutant of ExceptPc: the exception leaves main
ExceptPcPropagates == "idle"

\* where main goes when the try block of an entity raises: the except
\* clause prints and the for loop continues
ExceptPc == "loop"

csv  == csvs[Len(csvs)]
runs == Len(csvs)

ticker == company_data[ei]
cik    == cik_str(ticker)
filing == filings[fi]
form_type == Lower(filing.form)
form_dir  == << ticker, form_type >>
accession_number == filing.accessionNumber
zip_filename == << form_dir, << "zip", accession_number >> >>

DocName(ft, rd, t) == << "doc", Upper(ft), rd, t >>

\* mutant of ExtractMembers: an existing target is not removed, so the
\* rename is refused and the member stays under its own name
RECURSIVE ExtractMembersNoOverwrite(_, _, _, _, _)
ExtractMembersNoOverwrite(names, k, dir, target, disk) ==
    IF k > Len(names) THEN disk
    ELSE IF EndsWithXml(names[k])
         THEN LET member == << dir, << "member", names[k] >> >>
                  dest   == << dir, target >>
                  d1     == disk \cup {member}
                  d3     == IF dest \in d1 THEN d1
                            ELSE (d1 \ {member}) \cup {dest}
              IN  ExtractMembersNoOverwrite(names, k + 1, dir, target, d3)
         ELSE ExtractMembersNoOverwrite(names, k + 1, dir, target, disk)

\* the body of "for file in zip_ref.namelist()" (lines 96-104), applied to
\* the members from position k on: extract, remove an existing target,
\* rename.  Returns the paths on disk afterwards.
RECURSIVE ExtractMembers(_, _, _, _, _)
ExtractMembers(names, k, dir, target, disk) ==
    IF k > Len(names) THEN disk
    ELSE IF EndsWithXml(names[k])
         THEN LET member == << dir, << "member", names[k] >> >>
                  dest   == << dir, target >>
                  d1     == disk \cup {member}
                  d2     == IF dest \in d1 THEN d1 \ {dest} ELSE d1
                  d3     == (d2 \ {member}) \cup {dest}
              IN  ExtractMembers(names, k + 1, dir, target, d3)
         ELSE ExtractMembers(names, k + 1, dir, target, disk)

HasMatch(names) == \E k \in 1..Len(names) : EndsWithXml(names[k])

(* ------------------------------- Init --------------------------------- *)
InitPipe ==
    /\ csvs = << >>
    /\ company_data = << >>
    /\ committed = << >>
    /\ pending = << >>
    /\ pc = "idle"
    /\ ei = 1
    /\ filings = << >>
    /\ fi = 1
    /\ retries = 0
    /\ response = BadResponse
    /\ new_filename = Unbound
    /\ files = {}
    /\ ev = "none"
    /\ attempted = << >>
    /\ failed = {}
    /\ cursor = ""
    /\ fetches = 0
    /\ attempts = 0
    /\ extracted = {}
    /\ allLedgered = FALSE
    /\ fetched = {}
    /\ interrupted = ""

Threads == 1..NumThreads

InitRL ==
    /\ now = 0
    /\ permits = max_calls
    /\ lock = 0
    /\ timer = 0
    /\ tpc = [i \in Threads |-> "idle"]
    /\ tread = [i \in Threads |-> 0]
    /\ wake = [i \in Threads |-> 0]
    /\ starts = [t \in 0..MaxTime |-> 0]
    /\ own = [i \in Threads |-> 0]
    /\ raised = [i \in Threads |-> FALSE]

Init == InitPipe /\ InitRL

(* ------------------------------ actions ------------------------------- *)
AllEligibleIn(list, rows) ==
    \A i \in 1..Len(list) :
        \A f \in Range(FilterForms(Recent(cik_str(list[i])))) :
            \E j \in 1..Len(rows) : rows[j].accession_number = f.accessionNumber

\* main, lines 132-146: read the input, open the ledger, take the newest
\* row's ticker and slice the input at it.  index[0] raises IndexError
\* outside the try block when the ticker is not in the input.
StartRun ==
    /\ pc = "idle"
    /\ Len(csvs) < MaxRuns
    /\ \E list \in InputLists :
        LET last  == IF committed = << >> THEN "" ELSE committed[Len(committed)].ticker
            found == last \in Range(list)
        IN  /\ csvs' = Append(csvs, list)
            /\ cursor' = last
            /\ allLedgered' = AllEligibleIn(list, committed)
            /\ IF last = "" THEN
                   /\ company_data' = list
                   /\ pc' = "loop"
                   /\ ev' = "started"
               ELSE IF found THEN
                   /\ company_data' = ResumeSlice(list, last)
                   /\ pc' = "loop"
                   /\ ev' = "resumed"
               ELSE
                   /\ company_data' = list
                   /\ pc' = IndexErrorPc
                   /\ ev' = "index_error"
    /\ pending' = << >>
    /\ ei' = 1
    /\ fi' = 1
    /\ filings' = << >>
    /\ retries' = 0
    /\ response' = BadResponse
    /\ new_filename' = Unbound
    /\ attempted' = << >>
    /\ failed' = {}
    /\ fetches' = 0
    /\ attempts' = 0
    /\ fetched' = {}
    /\ UNCHANGED << committed, files, extracted, interrupted >>
    /\ UNCHANGED rlVars

\* mutant of AfterRaise: the except clause rolls the transaction back
AfterRaiseRollback(rows) == << >>

\* the open transaction after the except clause (lines 156-157), which
\* neither commits nor rolls back
AfterRaise(rows) == rows

\* what every raise inside the try block of main does (lines 156-157)
Raise(what) ==
    /\ pc' = ExceptPc
    /\ pending' = AfterRaise(pending)
    /\ ei' = ei + 1
    /\ ev' = what
    /\ failed' = failed \cup {ticker}

\* main, lines 148-154: next row, get_filings_list(cik) and the entry of
\* download_and_unzip_filings.  The lookup raises on a failed request or
\* a malformed body.
ProcessEntity ==
    /\ pc = "loop"
    /\ ei <= Len(company_data)
    /\ attempted' = Append(attempted, ticker)
    /\ \E ok \in BOOLEAN :
        IF ok THEN
            /\ filings' = FilterForms(Recent(cik))
            /\ fi' = 1
            /\ new_filename' = Unbound
            /\ pc' = "filing"
            /\ ev' = "catalog"
            /\ UNCHANGED << ei, failed, pending >>
        ELSE
            /\ Raise("catalog_error")
            /\ UNCHANGED << filings, fi, new_filename >>
    /\ UNCHANGED << csvs, company_data, committed, retries, response,
                    files, cursor, fetches, attempts, extracted, allLedgered,
                    fetched, interrupted >>
    /\ UNCHANGED rlVars

\* lines 51-67: next filing and the ledger lookup
CheckDedup ==
    /\ pc = "filing"
    /\ fi <= Len(filings)
    /\ IF AlreadyDownloaded(accession_number) THEN
           /\ fi' = fi + 1
           /\ pc' = "filing"
           /\ ev' = "skip"
           /\ UNCHANGED << retries, attempts >>
       ELSE
           /\ retries' = 0
           /\ attempts' = 0
           /\ pc' = IF LoopCond(0) THEN "download" ELSE "post"
           /\ ev' = "dedup_miss"
           /\ UNCHANGED fi
    /\ UNCHANGED << csvs, company_data, committed, pending, ei, filings,
                    response, new_filename, files, attempted, failed, cursor,
                    fetches, extracted, allLedgered,
                    fetched, interrupted >>
    /\ UNCHANGED rlVars

\* lines 72-84: one pass of the retry loop
RequestsGet ==
    /\ pc = "download"
    /\ fetches' = fetches + 1
    /\ attempts' = attempts + 1
    /\ fetched' = fetched \cup {accession_number}
    /\ \/ \E p \in Packages :
            /\ response' = p
            /\ pc' = "post"
            /\ ev' = "status_200"
            /\ UNCHANGED retries
       \/ \E what \in {"status_other", "request_exception"} :
            /\ response' = BadResponse
            /\ retries' = retries + 1
            /\ pc' = IF LoopCond(retries + 1) THEN "download" ELSE "post"
            /\ ev' = what
    /\ UNCHANGED << csvs, company_data, committed, pending, ei, filings, fi,
                    new_filename, files, attempted, failed, cursor, extracted,
                    allLedgered,
                    interrupted >>
    /\ UNCHANGED rlVars

\* lines 85-92: give up on the filing, or write the package to disk
AfterLoop ==
    /\ pc = "post"
    /\ IF retries = max_retries THEN
           /\ fi' = fi + 1
           /\ pc' = "filing"
           /\ ev' = "fetch_exhausted"
           /\ UNCHANGED files
       ELSE
           /\ files' = files \cup {zip_filename}
           /\ pc' = "extract"
           /\ ev' = "downloaded"
           /\ UNCHANGED fi
    /\ UNCHANGED << csvs, company_data, committed, pending, ei, filings,
                    retries, response, new_filename, attempted, failed, cursor,
                    fetches, attempts, extracted, allLedgered,
                    fetched, interrupted >>
    /\ UNCHANGED rlVars

\* lines 94-106: open the package, extract and rename the matching
\* members, remove the package.  zipfile.ZipFile raises BadZipFile, which
\* nothing in download_and_unzip_filings catches.
Extract ==
    /\ pc = "extract"
    /\ IF ~response.valid THEN
           /\ Raise("bad_zip")
           /\ UNCHANGED << files, new_filename, extracted >>
       ELSE
           LET report_date == FormatDate(filing.reportDate)
               target == DocName(form_type, report_date, ticker)
               hit    == HasMatch(response.names)
           IN  /\ files' = ExtractMembers(response.names, 1, form_dir, target, files)
                              \ {zip_filename}
               /\ new_filename' = IF hit THEN target ELSE new_filename
               /\ extracted' = IF hit
                               THEN extracted \cup {<< accession_number, << form_dir, target >> >>}
                               ELSE extracted
               /\ pc' = "insert"
               /\ ev' = IF ~hit THEN "no_member"
                        ELSE IF << form_dir, target >> \in files THEN "re_extracted"
                        ELSE "extracted"
               /\ UNCHANGED << ei, failed, pending >>
    /\ UNCHANGED << csvs, company_data, committed, filings, fi,
                    retries, response, attempted, cursor, fetches, attempts,
                    allLedgered,
                    fetched, interrupted >>
    /\ UNCHANGED rlVars

\* mutant of AfterInsert: the connection is in autocommit mode, every
\* INSERT is durable at once
AfterInsertAutocommit(durable, open, row) ==
    [ durable |-> durable \o Append(open, row), open |-> << >> ]

\* the table after cursor.execute(INSERT ...) on the connection of
\* sqlite3.connect('filings.db'): the row joins the open transaction
AfterInsert(durable, open, row) ==
    [ durable |-> durable, open |-> Append(open, row) ]

\* lines 108-112: the INSERT; reading new_filename raises
\* UnboundLocalError when no member of any package matched so far
Insert ==
    /\ pc = "insert"
    /\ IF new_filename = Unbound THEN
           /\ Raise("name_error")
           /\ UNCHANGED << committed, fi >>
       ELSE
           LET row == [ ticker           |-> ticker,
                        cik              |-> cik,
                        form_type        |-> form_type,
                        report_date      |-> FormatDate(filing.reportDate),
                        accession_number |-> accession_number,
                        file_path        |-> << form_dir, new_filename >> ]
               tbl == AfterInsert(committed, pending, row)
           IN  /\ committed' = tbl.durable
               /\ pending' = tbl.open
           /\ fi' = fi + 1
           /\ pc' = "filing"
           /\ ev' = "inserted"
           /\ UNCHANGED << ei, failed >>
    /\ UNCHANGED << csvs, company_data, filings, retries, response,
                    new_filename, files, attempted, cursor, fetches, attempts,
                    extracted, allLedgered,
                    fetched, interrupted >>
    /\ UNCHANGED rlVars

\* line 155: conn.commit() after the last filing; a failed commit raises
\* and leaves the transaction open
Commit ==
    /\ pc = "filing"
    /\ fi > Len(filings)
    /\ \E ok \in BOOLEAN :
        IF ok THEN
            /\ committed' = committed \o pending
            /\ pending' = << >>
            /\ pc' = "loop"
            /\ ei' = ei + 1
            /\ ev' = "commit"
            /\ UNCHANGED failed
        ELSE
            /\ Raise("commit_error")
            /\ UNCHANGED committed
    /\ UNCHANGED << csvs, company_data, filings, fi, retries, response,
                    new_filename, files, attempted, cursor, fetches, attempts,
                    extracted, allLedgered,
                    fetched, interrupted >>
    /\ UNCHANGED rlVars

\* the process is gone: its locals no longer exist
ProcessEnds ==
    /\ ei' = 1
    /\ fi' = 1
    /\ filings' = << >>
    /\ retries' = 0
    /\ attempts' = 0
    /\ response' = BadResponse
    /\ new_filename' = Unbound
    /\ fetched' = {}

\* line 159: conn.close() after the last row; rows not committed are lost
CloseConn ==
    /\ pc = "loop"
    /\ ei > Len(company_data)
    /\ pending' = << >>
    /\ pc' = "idle"
    /\ ev' = "closed"
    /\ ProcessEnds
    /\ UNCHANGED << csvs, company_data, committed, files, attempted, failed,
                    cursor, fetches, extracted, allLedgered >>
    /\ interrupted' = ""
    /\ UNCHANGED rlVars

\* the process is killed between two steps: the open transaction is
\* rolled back, the files stay
Crash ==
    /\ pc # "idle"
    /\ pending' = << >>
    /\ pc' = "idle"
    /\ ev' = "crash"
    /\ ProcessEnds
    /\ UNCHANGED << csvs, company_data, committed, files, attempted, failed,
                    cursor, fetches, extracted, allLedgered >>
    /\ interrupted' = IF pc = "loop" THEN "" ELSE ticker
    /\ UNCHANGED rlVars

Next ==
    \/ StartRun
    \/ ProcessEntity
    \/ CheckDedup
    \/ RequestsGet
    \/ AfterLoop
    \/ Extract
    \/ Insert
    \/ Commit
    \/ CloseConn
    \/ Crash

Spec == Init /\ [][Next]_vars

(* --------------------------- RateLimiter ------------------------------ *)
\* mutant of CanAcquire: acquire also returns at a counter of zero
CanAcquireAtZero(p) == p >= 0

\* Semaphore.acquire() returns only while the counter is positive
CanAcquire(p) == p > 0

\* mutant of SleepFor: "if elapsed > self.period", so a quick call never
\* sleeps
SleepForInverted(elapsed) == IF elapsed > period THEN elapsed - period ELSE 0

\* mutant of SleepFor: "time.sleep(elapsed)", the time already spent
\* instead of the time still owed
SleepForElapsed(elapsed) == IF elapsed < period THEN elapsed ELSE 0

\* __exit__, lines 29-30: how long the caller sleeps
SleepFor(elapsed) == IF elapsed < period THEN period - elapsed ELSE 0

\* line 22: self.semaphore.acquire()
SemAcquire(i) ==
    /\ tpc[i] = "idle"
    /\ CanAcquire(permits)
    /\ permits' = permits - 1
    /\ tpc' = [tpc EXCEPT ![i] = "sem"]
    /\ UNCHANGED << now, lock, timer, tread, wake, starts, own, raised >>
    /\ UNCHANGED pipeVars

\* line 23 and the right-hand side of line 24: self.lock.acquire(), then
\* time.time() is evaluated under the lock
LockAcquire(i) ==
    /\ tpc[i] = "sem"
    /\ lock = 0
    /\ lock' = i
    /\ tread' = [tread EXCEPT ![i] = now]
    /\ tpc' = [tpc EXCEPT ![i] = "stamp"]
    /\ UNCHANGED << now, permits, timer, wake, starts, own, raised >>
    /\ UNCHANGED pipeVars

\* the store of line 24 and line 25: self.timer = <the value read>, then
\* self.lock.release(); the body of the with statement begins
StoreTimer(i) ==
    /\ tpc[i] = "stamp"
    /\ lock = i
    /\ timer' = tread[i]
    /\ own' = [own EXCEPT ![i] = tread[i]]
    /\ starts' = [starts EXCEPT ![tread[i]] = @ + 1]
    /\ tread' = [tread EXCEPT ![i] = 0]
    /\ lock' = 0
    /\ tpc' = [tpc EXCEPT ![i] = "body"]
    /\ UNCHANGED << now, permits, wake, raised >>
    /\ UNCHANGED pipeVars

\* the body of get_filings_list's with statement (lines 41-44) returns;
\* the with statement calls __exit__, whose line 28 first evaluates
\* time.time()
BodyReturns(i) ==
    /\ tpc[i] = "body"
    /\ tread' = [tread EXCEPT ![i] = now]
    /\ tpc' = [tpc EXCEPT ![i] = "exit"]
    /\ UNCHANGED << now, permits, lock, timer, wake, starts, own, raised >>
    /\ UNCHANGED pipeVars

\* mutant of ExitOnRaise: acquire and release written as plain calls
\* around the request, so an exception skips the release
ExitSkippedOnRaise == "idle"

\* line 40: the with statement calls __exit__ also when its body raises
ExitOnRaise == "exit"

\* the body of get_filings_list's with statement raises (failed request,
\* body that is not JSON, missing key): __exit__ runs as on a return and
\* the exception goes on to the caller afterwards
BodyRaises(i) ==
    /\ tpc[i] = "body"
    /\ raised' = [raised EXCEPT ![i] = TRUE]
    /\ tread' = [tread EXCEPT ![i] = now]
    /\ tpc' = [tpc EXCEPT ![i] = ExitOnRaise]
    /\ UNCHANGED << now, permits, lock, timer, wake, starts, own >>
    /\ UNCHANGED pipeVars

\* lines 28-30: read self.timer, subtract, and start the sleep
ExitReadTimer(i) ==
    /\ tpc[i] = "exit"
    /\ wake' = [wake EXCEPT ![i] = now + SleepFor(tread[i] - timer)]
    /\ tread' = [tread EXCEPT ![i] = 0]
    /\ tpc' = [tpc EXCEPT ![i] = "sleep"]
    /\ UNCHANGED << now, permits, lock, timer, starts, own, raised >>
    /\ UNCHANGED pipeVars

\* lines 30-31: time.sleep returns no earlier than asked, then
\* self.semaphore.release(); __exit__ returns and the caller's frame ends
SemRelease(i) ==
    /\ tpc[i] = "sleep"
    /\ now >= wake[i]
    /\ permits' = permits + 1
    /\ wake' = [wake EXCEPT ![i] = 0]
    /\ own' = [own EXCEPT ![i] = 0]
    /\ tpc' = [tpc EXCEPT ![i] = "idle"]
    /\ raised' = [raised EXCEPT ![i] = FALSE]
    /\ UNCHANGED << now, lock, timer, tread, starts >>
    /\ UNCHANGED pipeVars

\* the clock advances
Tick ==
    /\ now < MaxTime
    /\ now' = now + 1
    /\ UNCHANGED << permits, lock, timer, tpc, tread, wake, starts, own, raised >>
    /\ UNCHANGED pipeVars

NextRL ==
    \/ \E i \in Threads : SemAcquire(i)
    \/ \E i \in Threads : LockAcquire(i)
    \/ \E i \in Threads : StoreTimer(i)
    \/ \E i \in Threads : BodyReturns(i)
    \/ \E i \in Threads : BodyRaises(i)
    \/ \E i \in Threads : ExitReadTimer(i)
    \/ \E i \in Threads : SemRelease(i)
    \/ Tick

SpecRL == Init /\ [][NextRL]_vars

(* ============================ properties ============================== *)
\* the rows of the ledger that carry an accession number
Known(acc) == \E i \in 1..Len(Table) : Table[i].accession_number = acc

\* position of a ticker in an input list whose tickers are distinct
PosIn(list, t) == CHOOSE k \in 1..Len(list) : list[k] = t

InFetchOrExtract == pc \in {"download", "post", "extract", "insert"}

\* C1 (state part): while a filing is being downloaded, extracted or
\* inserted, its accession number is in no row of the ledger, durable or
\* pending.
NoWorkOnKnown == InFetchOrExtract => ~Known(accession_number)

\* C1 (step part): the step taken at a filing whose accession number is
\* already in the ledger issues no request, touches no file, extracts
\* nothing, inserts nothing, and leaves the loop at the next filing of the
\* same entity (or the process is killed).
SkipStep ==
    (pc = "filing" /\ fi <= Len(filings) /\ Known(accession_number))
        => /\ fetches' = fetches
           /\ files' = files
           /\ extracted' = extracted
           /\ committed' = committed
           /\ Len(pending') <= Len(pending)
           /\ \/ pc' = "idle"
              \/ pc' = "filing" /\ fi' = fi + 1 /\ ei' = ei

\* C1: a filing whose accession number is already in the ledger (durable
\* from an earlier run, or inserted earlier in this run) is skipped: no
\* download request, no extraction, no insert.
DedupCorrect == []NoWorkOnKnown /\ [][SkipStep]_vars

\* C1 witness: a filing was just skipped because of a row inserted earlier
\* in the same run and not yet committed.
DedupWitness ==
    /\ pc = "filing"
    /\ ev = "skip"
    /\ fi >= 2
    /\ \E i \in 1..Len(pending) :
           pending[i].accession_number = filings[fi - 1].accessionNumber
    /\ \A i \in 1..Len(committed) :
           committed[i].accession_number # filings[fi - 1].accessionNumber

\* C2: no two rows of the ledger, durable or pending, carry the same
\* accession number.
UniqueAccession ==
    \A i, j \in 1..Len(Table) :
        i # j => Table[i].accession_number # Table[j].accession_number

\* C2 witness: the second ticker of a registrant meets, in a later run, the
\* accession number its sibling ticker recorded; the ledger holds every
\* eligible accession number once.
UniqueWitness ==
    /\ pc = "filing"
    /\ ev = "skip"
    /\ ticker = "CCC"
    /\ Len(csvs) = 2
    /\ { Table[i].accession_number : i \in 1..Len(Table) } = {"a1", "a3", "a4"}
    /\ \E i \in 1..Len(committed) :
           committed[i].accession_number = "a4" /\ committed[i].ticker = "BBB"

\* C3 (as claimed): every row of the ledger names a path to which a member
\* of that same filing's package was extracted and renamed before the
\* insert, packages without a matching member included.
RecordedAfterExtract ==
    \A i \in 1..Len(Table) :
        << Table[i].accession_number, Table[i].file_path >> \in extracted

\* C4: when the ledger is not empty at startup and the ticker of its
\* newest row is in the input, the entities whose processing begins are,
\* in order, the input from that ticker's row on: the first is that
\* ticker, none precedes it.
ResumeCorrect ==
    (csvs # << >> /\ cursor # "" /\ cursor \in Range(csv))
        => LET k == PosIn(csv, cursor)
               n == Len(attempted)
           IN  /\ k + n - 1 <= Len(csv)
               /\ attempted = SubSeq(csv, k, k + n - 1)

\* C4 witness: a run that resumed at the second of three rows has ended
\* after processing the second and the third.
ResumeWitness ==
    /\ pc = "idle"
    /\ ev = "closed"
    /\ csv = << "AAA", "BBB", "CCC" >>
    /\ cursor = "BBB"
    /\ attempted = << "BBB", "CCC" >>

\* C5: in a run that starts with every eligible filing of its input
\* durable in the ledger, no archive request is issued and no row is
\* inserted, so no accession number gets a second row.
IdempotentRerun ==
    allLedgered => /\ fetches = 0
                   /\ pending = << >>
                   /\ UniqueAccession

\* C5 witness: the second of two runs on the same input has ended, having
\* processed an entity, with everything ledgered by the first.
IdempotentWitness ==
    /\ allLedgered
    /\ Len(csvs) = 2
    /\ csvs[1] = csvs[2]
    /\ pc = "idle"
    /\ ev = "closed"
    /\ attempted # << >>

\* the entities a run is to process: the whole input when the ledger is
\* empty at startup, the input from the cursor's row on otherwise
FromStart ==
    IF cursor = "" THEN csv
    ELSE SubSeq(csv, PosIn(csv, cursor), Len(csv))

RunEnded == pc = "idle" /\ ev \notin {"none", "crash", "index_error"}

\* C6 (as claimed): a run that ends has attempted every entity of the
\* input.
AttemptsEveryEntity == RunEnded => attempted = csv

\* C6 (amended): a process that was not killed ends only after it has
\* attempted every entity from its starting entity to the last row of the
\* input, whatever raised on the way.
AttemptsFromStart == RunEnded => attempted = FromStart

\* C6 witness: a run over three entities has ended although the first two
\* raised.
IsolationWitness ==
    /\ RunEnded
    /\ attempted = << "AAA", "BBB", "CCC" >>
    /\ {"AAA", "BBB"} \subseteq failed

\* C7: a filing gets at most max_retries archive requests; when all of
\* them fail the filing is left without a row and without an exception and
\* the loop stands at the next filing of the same entity; a request
\* answered 200 ends the loop with the retry budget unspent and its package
\* is what extraction opens.
RetryBound ==
    /\ attempts <= max_retries
    /\ ev = "fetch_exhausted" =>
           /\ attempts = max_retries
           /\ pc = "filing"
           /\ fi >= 2
           /\ ~Known(filings[fi - 1].accessionNumber)
           /\ ticker \notin failed
    /\ ev \in {"status_other", "request_exception"} =>
           pc = (IF attempts < max_retries THEN "download" ELSE "post")
    /\ ev = "status_200" => pc = "post" /\ retries < max_retries
    /\ pc = "extract" => /\ attempts \in 1..max_retries
                         /\ response \in Packages
                         /\ zip_filename \in files

\* C7 witness: the retry budget of a filing was spent and another filing
\* of the same entity is next.
RetryWitness ==
    /\ ev = "fetch_exhausted"
    /\ pc = "filing"
    /\ fi <= Len(filings)

\* C8 (as claimed): after a package that is corrupt or has no matching
\* member the loop stands at the next filing of the same entity, and no
\* row exists for a filing from whose package nothing was extracted.
ExtractionFailureScoped ==
    /\ ev = "bad_zip" => pc = "filing"
    /\ \A i \in 1..Len(Table) :
           \E e \in extracted : e[1] = Table[i].accession_number

(* ----------------------- RateLimiter properties ----------------------- *)
\* calls whose __enter__ timestamp lies in the clock values from..to
RECURSIVE StartsIn(_, _)
StartsIn(from, to) ==
    IF from > to \/ from > MaxTime THEN 0
    ELSE starts[from] + StartsIn(from + 1, to)

Holders == { i \in Threads : tpc[i] # "idle" }

\* C9: in every window of period consecutive clock values, at most
\* max_calls calls took their __enter__ timestamp, whatever the number of
\* callers and however quickly the calls return.
RateCap == \A t \in 0..MaxTime : StartsIn(t, t + period - 1) <= max_calls

\* C9 witness: more calls than permits have started, so a permit was
\* reused, some window is full, and a caller is waiting for a permit.
RateCapWitness ==
    /\ StartsIn(0, MaxTime) > max_calls
    /\ \E t \in 0..MaxTime : StartsIn(t, t + period - 1) = max_calls
    /\ permits = 0
    /\ \E i \in Threads : tpc[i] = "idle"

\* C10: the callers between the semaphore acquire of __enter__ and the
\* semaphore release of __exit__ are never more than max_calls, and the
\* semaphore's counter is max_calls less their number, within
\* 0..max_calls.
PermitsBounded ==
    /\ permits \in 0..max_calls
    /\ Cardinality(Holders) <= max_calls
    /\ permits + Cardinality(Holders) = max_calls

\* C10 witness: every permit is out, held by callers at different places
\* (one in the body, one sleeping in __exit__), and another caller waits.
PermitsWitness ==
    /\ permits = 0
    /\ \E i \in Threads : tpc[i] = "idle"
    /\ \E i \in Threads : tpc[i] = "body"
    /\ \E i \in Threads : tpc[i] = "sleep" /\ wake[i] > now

\* C11 (step): a caller that returns its permit does so at a clock value
\* no earlier than period after the timestamp its own __enter__ took.
ReleaseStep ==
    \A i \in Threads :
        (tpc[i] # "idle" /\ tpc'[i] = "idle") => now >= own[i] + period

\* C11: under every interleaving of callers that overwrite the one shared
\* self.timer, each permit goes back to the pool no earlier than period
\* after the start (the __enter__ timestamp) of the call that took it.
PermitHeldForPeriod == [][ReleaseStep]_vars

\* C11 witness: a caller whose timestamp has since been overwritten by a
\* later caller's is through its sleep and about to return its permit.
PermitHeldWitness ==
    \E i \in Threads :
        /\ tpc[i] = "sleep"
        /\ own[i] < timer
        /\ wake[i] > own[i] + period
        /\ now >= wake[i]

\* C16: a caller whose call raised inside the scope is in __exit__, sleeps
\* there until period after its own timestamp like any other, and its
\* permit is not lost: the permits out are those of the callers inside the
\* scope or in __exit__, so once every caller is done the pool is full.
NoPermitLeak ==
    /\ \A i \in Threads :
           raised[i] => /\ tpc[i] \in {"exit", "sleep"}
                        /\ tpc[i] = "sleep" => wake[i] >= own[i] + period
    /\ permits = max_calls - Cardinality({ i \in Threads : tpc[i] # "idle" })
    /\ (\A i \in Threads : tpc[i] = "idle") => permits = max_calls

\* C16 witness: a caller whose call raised has slept out the delay and is
\* about to return its permit, while the pool is empty and another caller
\* waits for it.
NoPermitLeakWitness ==
    /\ permits = 0
    /\ \E i \in Threads : tpc[i] = "idle"
    /\ \E i \in Threads :
           /\ raised[i]
           /\ tpc[i] = "sleep"
           /\ wake[i] > 0
           /\ now >= wake[i]

(* ----------------------- pipeline, second part ------------------------ *)
\* C12 (as claimed): when the processing of an entity has just raised in
\* its filing loop, the rows inserted so far for that entity have been
\* committed: none of them is still pending when the run turns to the next
\* entity.
ErrorCommitsEntity ==
    (pc = "loop" /\ ev \in {"bad_zip", "name_error"})
        => \A i \in 1..Len(pending) : pending[i].ticker # company_data[ei - 1]

\* what the catalog of the model says a filing's row and file must be
ExpectedPath(t, acc) ==
    CASE acc = "a1" -> << << t, "10-k" >>, << "doc", "10-K", "2023-09-30", t >> >>
      [] acc = "a3" -> << << t, "10-q" >>, << "doc", "10-Q", "2023-06-30", t >> >>
      [] acc = "a4" -> << << t, "10-q" >>, << "doc", "10-Q", "2023-09-30", t >> >>

ExpectedRow(t, acc) ==
    [ ticker           |-> t,
      cik              |-> IF t = "AAA" THEN "c1" ELSE "c2",
      form_type        |-> IF acc = "a1" THEN "10-k" ELSE "10-q",
      report_date      |-> IF acc = "a3" THEN "2023-06-30" ELSE "2023-09-30",
      accession_number |-> acc,
      file_path        |-> ExpectedPath(t, acc) ]

\* the filing whose INSERT has just run came with a package that has a
\* matching member
JustRecorded ==
    ev = "inserted" /\ response.valid /\ HasMatch(response.names)

\* C13: a filing that was not ledgered and whose download and extraction
\* succeed takes exactly one archive request, leaves exactly one file in
\* its directory, at the deterministic path, and gets exactly one row,
\* the newest, carrying its ticker, entity id, form type, report date,
\* accession number and that path; the commit that ends the entity makes
\* every row inserted for it durable.
SuccessPath ==
    /\ JustRecorded =>
           LET acc == filings[fi - 1].accessionNumber
               row == ExpectedRow(ticker, acc)
           IN  /\ attempts = 1
               /\ { f \in files : f[1] = row.file_path[1] } = { row.file_path }
               /\ pending # << >>
               /\ pending[Len(pending)] = row
               /\ Cardinality({ i \in 1..Len(Table) :
                                    Table[i].accession_number = acc }) = 1
    /\ ev = "commit" =>
           /\ pc = "loop"
           /\ pending = << >>

\* C13 witness: the first entity of a first run had both its eligible
\* filings fetched once, extracted and recorded, and its commit is done.
SuccessWitness ==
    /\ ev = "commit"
    /\ Len(csvs) = 1
    /\ attempted = << "AAA" >>
    /\ fetches = 2
    /\ committed = << ExpectedRow("AAA", "a1"), ExpectedRow("AAA", "a3") >>
    /\ files = { ExpectedPath("AAA", "a1"), ExpectedPath("AAA", "a3") }

\* C14: after a package with a matching member has been extracted, the
\* document is at <ticker>/<form_type> under the name made of the
\* upper-cased form type, the YYYY-MM-DD report date and the ticker, it is
\* the only document of that directory however often the filing was
\* extracted before, and no member is on disk under its original name.
DeterministicNaming ==
    /\ \A f \in files : f[2][1] # "member"
    /\ ev \in {"extracted", "re_extracted"} =>
           LET dest == ExpectedPath(ticker, accession_number)
           IN  /\ pc = "insert"
               /\ dest \in files
               /\ new_filename = dest[2]
               /\ { f \in files : f[1] = form_dir /\ f[2][1] = "doc" } = {dest}

\* C14 witness: a later run extracts a filing whose document is already
\* on disk, from a package with two matching members.
ReExtractWitness ==
    /\ ev = "re_extracted"
    /\ Len(csvs) = 2
    /\ Len(response.names) = 2
    /\ ExpectedPath(ticker, accession_number) \in files

\* the events of the steps that leave an entity through the except clause
RaiseEvents == {"catalog_error", "bad_zip", "name_error", "commit_error"}

CommitStep ==
    /\ (committed' # committed \/ ev' = "commit") =>
           /\ pc = "filing"
           /\ fi > Len(filings)
           /\ pc' = "loop"
           /\ ei' = ei + 1
           /\ committed' = committed \o pending
           /\ pending' = << >>
    /\ (pc \notin {"idle", "loop"} /\ pc' = "loop" /\ ev' \notin RaiseEvents) =>
           ev' = "commit"

\* C17: the durable ledger changes only in the commit that follows the
\* last filing of an entity, which makes all rows inserted since the last
\* commit durable at once and hands over to the next entity; an entity
\* left without an exception is left by exactly that commit.
CommitOncePerEntity == [][CommitStep]_vars

\* C17 witness: two filings of one entity were recorded and became
\* durable in one commit.
CommitOnceWitness ==
    /\ ev = "commit"
    /\ failed = {}
    /\ Len(attempted) = 1
    /\ Len(committed) = 2
    /\ committed[1].ticker = committed[2].ticker
    /\ committed[1].accession_number # committed[2].accession_number

PackageRemovedAfterExtract ==
    ev \in {"extracted", "re_extracted", "no_member"} => zip_filename \notin files

\* C18: once the extraction step of a filing is over, its package file is
\* not on disk, whether the package had matching members, had none, or
\* was not a zip archive.
PackageRemoved ==
    /\ PackageRemovedAfterExtract
    /\ ev = "bad_zip" =>
           << << company_data[ei - 1], Lower(filings[fi].form) >>,
              << "zip", filings[fi].accessionNumber >> >> \notin files

PendingStep ==
    /\ ev' \in RaiseEvents =>
           /\ pending' = pending
           /\ committed' = committed
    /\ ev' = "commit" =>
           /\ committed' = committed \o pending
           /\ pending' = << >>
    /\ ev' = "closed" =>
           /\ committed' = committed
           /\ pending' = << >>

\* C19: a step that raises out of an entity leaves both the open
\* transaction and the durable ledger as they are; the next commit makes
\* every pending row durable, whichever entity inserted it; closing the
\* connection drops the pending rows and adds nothing to the ledger.
PendingSurvivesRaise == [][PendingStep]_vars

\* C19 witness: a row inserted for an entity that then raised is durable
\* after a later entity's commit.
PendingCommittedLaterWitness ==
    /\ ev = "commit"
    /\ Len(csvs) = 1
    /\ \E i \in 1..Len(committed) :
           /\ committed[i].ticker \in failed
           /\ committed[i].ticker # company_data[ei - 1]

\* C19 witness for the other end: the run closed the connection with a
\* failed entity's row still pending, and the ledger has no row of it.
PendingDiscardedWitness ==
    /\ ev = "closed"
    /\ Len(csvs) = 1
    /\ "AAA" \in failed
    /\ ExpectedPath("AAA", "a1") \in files
    /\ committed = << >>

\* a run starts on a ledger whose newest row has a ticker that the input
\* of the run does not list
CursorMissing ==
    /\ Len(csvs') = Len(csvs) + 1
    /\ committed # << >>
    /\ committed[Len(committed)].ticker \notin Range(csvs'[Len(csvs')])

ResumeFailStep ==
    /\ CursorMissing =>
           /\ pc' = "idle"
           /\ attempted' = << >>
           /\ fetches' = 0
           /\ pending' = << >>
           /\ committed' = committed
           /\ files' = files
    /\ (ev = "index_error" /\ pc = "idle") => Len(csvs') = Len(csvs) + 1

\* C20: a run started on a non-empty ledger whose newest ticker is not in
\* the input ends in its start-up: no entity is attempted, nothing is
\* fetched, the ledger and the files are unchanged, and the only thing
\* that can follow is the start of another run.
ResumeLookupFails == [][ResumeFailStep]_vars

\* C20 witness: the first run recorded the third entity last, the second
\* run got the input without it and stopped in the resume lookup.
ResumeFailWitness ==
    /\ ev = "index_error"
    /\ pc = "idle"
    /\ cursor = "CCC"
    /\ csv = << "AAA", "BBB" >>
    /\ committed # << >>
    /\ attempted = << >>

\* accession numbers with a durable row
DurableAcc == { committed[i].accession_number : i \in 1..Len(committed) }

\* a run on the same input as the run before it, which was killed while
\* it was processing an entity
ResumedAfterCrash ==
    /\ Len(csvs) >= 2
    /\ pc # "idle"
    /\ interrupted # ""
    /\ csvs[Len(csvs)] = csvs[Len(csvs) - 1]

\* C15: in the run that follows a kill during an entity, the interrupted
\* entity is among the entities the run goes through; no accession number
\* ever has two rows; a filing is passed over only if it has a durable row
\* or was requested again in this run, and a filing without a row goes to
\* the archive request; when the interrupted entity's commit is done,
\* each of its eligible filings is durable or was requested in this run.
CrashRecovery ==
    ResumedAfterCrash =>
        /\ interrupted \in Range(company_data)
        /\ \A i, j \in 1..Len(Table) :
               Table[i].accession_number = Table[j].accession_number => i = j
        /\ ev = "skip" =>
               filings[fi - 1].accessionNumber \in DurableAcc \cup fetched
        /\ ev = "dedup_miss" =>
               /\ pc = "download"
               /\ accession_number \notin DurableAcc
        /\ (ev = "commit" /\ company_data[ei - 1] = interrupted) =>
               \A f \in Range(FilterForms(Recent(cik_str(interrupted)))) :
                   f.accessionNumber \in DurableAcc \cup fetched

\* C15 witness: the first run recorded one filing of the first entity
\* and was killed in the second entity; the second run, resumed at the
\* first entity, has committed the second entity with its filing
\* recorded once.
CrashRecoveryWitness ==
    /\ ResumedAfterCrash
    /\ interrupted = "BBB"
    /\ cursor = "AAA"
    /\ ev = "commit"
    /\ company_data[ei - 1] = "BBB"
    /\ "a4" \in fetched
    /\ Cardinality({ i \in 1..Len(committed) :
                         committed[i].accession_number = "a4" }) = 1

====
